---- MODULE Spec2Model ----
(***************************************************************************)
(* QuadX Sync Cache: PersistenceService.loadData / saveData                *)
(* (src/services/persistenceService.ts) together with the two callers that *)
(* start them, App.fetchData (src/unnamed/part_000) and                    *)
(* AdminPanel.performSync (src/components/Admin/AdminPanel.tsx).           *)
(*                                                                         *)
(* Every await of the code is a step boundary: the remote GET / POST and   *)
(* the IndexedDB put / get complete in steps of their own, so a load and a *)
(* save may interleave at exactly the points where the code suspends.      *)
(*                                                                         *)
(* Specifications:                                                         *)
(*   Spec        loadData and saveData of one client                       *)
(*   SpecReset   resetGlobal of the localStorage service (part_004)        *)
(*   SpecView    App's effect: initial load, poll timer, change listener   *)
(*   SpecClients two clients submitting complaints to the same store       *)
(*   SpecAdmin   merge, delete, toggle and submit on the collections       *)
(* Each leaves the state of the others as constructed.                     *)
(***************************************************************************)
EXTENDS Integers, FiniteSets, Sequences, TLC

VARIABLES
    remote,     \* body held by the remote shared store (JSON text)
    local,      \* value stored under STORAGE_KEY in IndexedDB, Undefined if none
    appData,    \* App's in-memory AppState (useState, part_000:20)
    load,       \* the loadData call in flight, or the last one that finished
    save,       \* the saveData call in flight, or the last one that finished
    nLoads,     \* loads started so far
    nSaves,     \* saves started so far
    view,       \* App's effect of part_000:30-53: loading indicator, timer, listener
    sync,       \* the loadData call of handleSync in flight, or its last one
    other,      \* a second client of the same remote store
    lastReplace,\* argument of the most recently completed successful replace
    ls,         \* localStorage entry under STORAGE_KEY (part_004), NoText if none
    reset,      \* the resetGlobal call of part_004:69-72
    adminData,  \* the collections of the AppState the admin operations work on
    op,         \* the admin operation performed last
    ui,         \* what AdminPanel and ComplaintBox display about their saves
    ingest,     \* the admin ingestion waiting for its collaborator, if any
    builtin,    \* the INITIAL_DATA object in memory and who shares its timetable
    login,      \* App's logo taps, login dialog and admin mode (part_000:22-27)
    mapView     \* the CampusMap view: mounted or not, and its viewMode

coreVars   == <<remote, local, appData, load, save, nLoads, nSaves>>
viewVars   == <<view, sync>>
clientVars == <<other, lastReplace>>
resetVars  == <<ls, reset>>
adminVars  == <<adminData, op>>
panelVars  == <<ui, ingest>>
shellVars  == <<builtin, login, mapView>>

vars == <<remote, local, appData, load, save, nLoads, nSaves,
          view, sync, other, lastReplace, ls, reset, adminData, op, ui, ingest,
          builtin, login, mapView>>

\* ---------------------------------------------------------------- bounds
MaxLoads == 2
MaxSaves == 2

\* ---------------------------------------------------------------- values
\* A JavaScript value as far as the Sync Cache looks at it.  kind is the
\* outcome of the tests of loadData line 57; for an object, each property is
\* "absent" (no such key), "undefined" (key present, value undefined) or a
\* token standing for its content.  complaints lists the ids of the complaints
\* collection, newest first, and events the ids of the events collection; they
\* are read only from a value that has a timetable.
Val(k, tt, map, sty) ==
    [kind |-> k, timetable |-> tt, campusMapImage |-> map, stylizedMapImage |-> sty,
     complaints |-> <<>>, events |-> <<>>]

Undefined == Val("undefined", "absent", "absent", "absent")
Null      == Val("null", "absent", "absent", "absent")
Arr       == Val("array", "absent", "absent", "absent")
Obj(tt, map, sty) == Val("object", tt, map, sty)

\* The built-in default aggregate (constants.ts, imported at line 3).
INITIAL_DATA == Obj("tt0", "absent", "absent")

\* JSON.stringify omits every property whose value is undefined.
DropUndefined(v) ==
    [v EXCEPT !.timetable        = IF @ = "undefined" THEN "absent" ELSE @,
              !.campusMapImage   = IF @ = "undefined" THEN "absent" ELSE @,
              !.stylizedMapImage = IF @ = "undefined" THEN "absent" ELSE @]

\* JSON.stringify(data) (saveData line 84): the text of a value.
Stringify(v) == [json |-> DropUndefined(v)]

\* response.json() (loadData line 56): the value a JSON text denotes.
Parse(text) == text.json

NoText == [json |-> Undefined]

\* Encoded size in bytes of a JSON text; images dominate it.
ImageBytes(img) ==
    CASE img = "img"  -> 300000
      [] img = "huge" -> 1200000
      [] OTHER        -> 0

Size(text) ==
    2000 + ImageBytes(text.json.campusMapImage) + ImageBytes(text.json.stylizedMapImage)

\* The remote store's payload ceiling.
PayloadCeiling == 1000000

\* The structural validity check as the data model states it: an object, not an
\* array, not null, with the timetable collection defined.
StructurallyValid(v) ==
    v.kind = "object" /\ v.timetable \notin {"absent", "undefined"}

\* ---------------------------------------------------------------- inputs
\* What the remote store may hold at start-up: anyone knowing the address can
\* overwrite it, so foreign payloads are among them.
RemoteInit ==
    { Stringify(Null), Stringify(Arr),
      Stringify(Obj("absent", "absent", "absent")),
      Stringify(Obj("tt1", "img", "img")) }

LocalInit == { Undefined, Obj("tt2", "absent", "absent") }

\* AppStates handed to save: one whose stylized image is undefined
\* (AdminPanel line 66), one carrying an oversized map image.
SaveInputs ==
    { Obj("tt1", "img", "undefined"), Obj("tt2", "huge", "absent") }

\* ---------------------------------------------------------------- records
IdleLoad ==
    [pc |-> "idle", fetch |-> "none", body |-> NoText, cloudData |-> Undefined,
     set |-> "none", get |-> "none", result |-> Undefined, rt |-> Undefined]

IdleSave ==
    [pc |-> "idle", data |-> Undefined, set |-> "none", posted |-> FALSE,
     reqBody |-> NoText, resp |-> "none", signals |-> 0, result |-> "none"]

\* ---------------------------------------------------------------- loadData
\* loadData line 57: cloudData && typeof cloudData === 'object' && !Array.isArray(cloudData)
IsPlainObject_NoArrayTest(v) == v.kind \in {"object", "array"}

IsPlainObject(v) == v.kind = "object"

\* loadData lines 54-64, from the fetch's outcome to the next await: a valid
\* body goes on to idbSet, anything else falls through to the local read.
LoadAfterFetch_SeedsCache(l, outcome, text) ==
    IF outcome = "ok" /\ IsPlainObject(Parse(text))
    THEN [l EXCEPT !.pc = "idbSet", !.cloudData = Parse(text)]
    ELSE [l EXCEPT !.pc = "idbSet", !.cloudData = INITIAL_DATA]

LoadAfterFetch(l, outcome, text) ==
    IF outcome = "ok" /\ IsPlainObject(Parse(text))
    THEN [l EXCEPT !.pc = "idbSet", !.cloudData = Parse(text)]
    ELSE [l EXCEPT !.pc = "idbGet"]

\* loadData lines 58-64: idbSet resolved (return cloudData) or rejected (the
\* catch of line 62, then on to the local read).
LoadAfterIdbSet_ReturnsDefault(l, ok) ==
    IF ok
    THEN [l EXCEPT !.pc = "done", !.result = INITIAL_DATA]
    ELSE [l EXCEPT !.pc = "idbGet"]

LoadAfterIdbSet(l, ok) ==
    IF ok
    THEN [l EXCEPT !.pc = "done", !.result = l.cloudData]
    ELSE [l EXCEPT !.pc = "idbGet"]

\* loadData lines 66-71: idbGet resolved with saved, or rejected (empty catch).
LoadAfterIdbGet_NoCatch(l, ok, saved) ==
    IF ~ok THEN [l EXCEPT !.pc = "threw"]
    ELSE IF saved.kind \notin {"undefined", "null"}
         THEN [l EXCEPT !.pc = "done", !.result = saved]
         ELSE [l EXCEPT !.pc = "done", !.result = INITIAL_DATA]

LoadAfterIdbGet(l, ok, saved) ==
    IF ok /\ saved.kind \notin {"undefined", "null"}
    THEN [l EXCEPT !.pc = "done", !.result = saved]
    ELSE [l EXCEPT !.pc = "done", !.result = INITIAL_DATA]

\* ---------------------------------------------------------------- saveData
\* saveData lines 79-85 and 92-95: idbSet resolved (issue the POST with the
\* serialized state) or rejected (the catch returns false).
SaveAfterIdbSet_PostsCollection(s, ok) ==
    IF ok
    THEN [s EXCEPT !.pc = "posting", !.posted = TRUE,
                   !.reqBody = Stringify([INITIAL_DATA EXCEPT
                                              !.complaints = s.data.complaints])]
    ELSE [s EXCEPT !.pc = "done", !.result = "false"]

SaveAfterIdbSet(s, ok) ==
    IF ok
    THEN [s EXCEPT !.pc = "posting", !.posted = TRUE, !.reqBody = Stringify(s.data)]
    ELSE [s EXCEPT !.pc = "done", !.result = "false"]

\* saveData lines 87-95: response.ok dispatches the event and returns true; a
\* non-success status returns false; a network error is caught and returns false.
SaveAfterResponse_DispatchFirst(s, outcome) ==
    IF outcome = "neterr"
    THEN [s EXCEPT !.pc = "done", !.result = "false"]
    ELSE [s EXCEPT !.pc = "done", !.signals = @ + 1,
                   !.result = IF outcome = "ok" THEN "true" ELSE "false"]

SaveAfterResponse_IgnoreStatus(s, outcome) ==
    IF outcome = "neterr"
    THEN [s EXCEPT !.pc = "done", !.result = "false"]
    ELSE [s EXCEPT !.pc = "done", !.result = "true",
                   !.signals = IF outcome = "ok" THEN @ + 1 ELSE @]

SaveAfterResponse(s, outcome) ==
    IF outcome = "ok"
    THEN [s EXCEPT !.pc = "done", !.signals = @ + 1, !.result = "true"]
    ELSE [s EXCEPT !.pc = "done", !.result = "false"]

\* What the remote store can answer to a replace request: a body over the
\* ceiling is never accepted.
ReplaceOutcomes(text) ==
    IF Size(text) > PayloadCeiling THEN {"neterr", "status"}
    ELSE {"neterr", "status", "ok"}

Outcome(ok) == IF ok THEN "ok" ELSE "err"

\* ---------------------------------------------------------------- actions
\* The parts of the state a specification does not exercise stay as they are
\* constructed.
NoView == [phase |-> "constructed", isLoading |-> TRUE, timer |-> FALSE,
           subscribed |-> FALSE, silent |-> FALSE, writer |-> "init",
           overlap |-> FALSE, dispatched |-> 0]

NoClient == [data |-> INITIAL_DATA, n |-> 0, acked |-> 0]

NoReset == [pc |-> "idle", set |-> "none", posted |-> FALSE, resp |-> "none",
            signals |-> 0, result |-> "none", reach |-> FALSE, n |-> 0]

NoOp == [build |-> "none", name |-> "none", category |-> "none", id |-> 0,
         items |-> <<>>, n |-> 0]

\* AdminPanel.tsx:30-31 (isProcessing false, statusMsg '') and part_001:11-13
\* (submitted false, complaintText '', isSyncing false).  origin is the view whose save is in
\* flight; clearTimer is the setTimeout of performSync line 43; failedAs
\* remembers the status shown for a failed save, by size of its payload.
NoUi == [origin |-> "none", isProcessing |-> FALSE, statusMsg |-> "",
         clearTimer |-> FALSE, isSyncing |-> FALSE, submitted |-> FALSE,
         complaintText |-> "",
         failedAs |-> [small |-> "none", large |-> "none"]]

\* appData is the prop the handler closed over when it was called.
\* returned tells whether the collaborator's last answer was empty.
NoIngest == [pc |-> "idle", appData |-> Undefined, image |-> "none",
             returned |-> "none"]

\* The module object INITIAL_DATA: pristine is the timetable constants.ts
\* gives it, timetable what that array holds now.  shared tells that the
\* in-memory AppState's timetable is that very array; posted is the timetable
\* of the body resetGlobal sent, once saved is set.
NoBuiltin == [pristine |-> <<>>, timetable |-> <<>>, shared |-> FALSE,
              saved |-> FALSE, posted |-> <<>>, resets |-> 0]

\* part_000:22-27: isAdminMode false, showAdminLogin false, password '',
\* logoTaps {count: 0, lastTime: 0}.  alerted tells that the alert of line 85
\* was shown for the password as typed.
NoLogin == [count |-> 0, isAdminMode |-> FALSE, showAdminLogin |-> FALSE,
            password |-> "", alerted |-> FALSE, taps |-> <<>>, n |-> 0]

\* CampusMap is not mounted.
NoMap == [open |-> FALSE, viewMode |-> "ORIGINAL"]

ViewAtRest   == view = NoView /\ sync = IdleLoad
ClientAtRest == other = NoClient /\ lastReplace = Undefined
ResetAtRest  == ls = NoText /\ reset = NoReset
AdminAtRest  == adminData = <<>> /\ op = NoOp
PanelAtRest  == ui = NoUi /\ ingest = NoIngest
ShellAtRest  == builtin = NoBuiltin /\ login = NoLogin /\ mapView = NoMap

InitCore ==
    /\ remote \in RemoteInit
    /\ local \in LocalInit
    /\ appData = INITIAL_DATA
    /\ load = IdleLoad
    /\ save = IdleSave
    /\ nLoads = 0
    /\ nSaves = 0

Init == InitCore /\ ViewAtRest /\ ClientAtRest /\ ResetAtRest /\ AdminAtRest /\ PanelAtRest /\ ShellAtRest

\* fetchData lines 31-33 / handleSync line 44: call loadData, which issues the
\* GET.  rt remembers the state of the save that completed successfully before
\* this load began, if any.
FetchData ==
    /\ load.pc \in {"idle", "done"}
    /\ nLoads < MaxLoads
    /\ load' = [IdleLoad EXCEPT !.pc = "fetching",
                    !.rt = IF save.pc = "done" /\ save.resp = "ok"
                           THEN save.data ELSE Undefined]
    /\ nLoads' = nLoads + 1
    /\ UNCHANGED <<remote, local, appData, save, nSaves>>

\* setAppData(data) of fetchData line 34, run when loadData has returned.
Resume_PerField(l, cur) ==
    IF l.pc = "done" THEN [cur EXCEPT !.timetable = l.result.timetable] ELSE cur

Resume(l, cur) == IF l.pc = "done" THEN l.result ELSE cur

\* The GET completes: network error, non-success status, or the stored body.
LoadFetchResponse ==
    /\ load.pc = "fetching"
    /\ \E outcome \in {"neterr", "status", "ok"} :
           load' = [LoadAfterFetch(load, outcome, remote) EXCEPT
                        !.fetch = outcome,
                        !.body = IF outcome = "ok" THEN remote ELSE NoText]
    /\ UNCHANGED <<remote, local, appData, save, nLoads, nSaves>>

\* The put of loadData line 58 completes (the stored value is a structured
\* clone of cloudData) or fails.
LoadIdbSet ==
    /\ load.pc = "idbSet"
    /\ \E ok \in BOOLEAN :
           /\ load' = [LoadAfterIdbSet(load, ok) EXCEPT !.set = Outcome(ok)]
           /\ local' = IF ok THEN load.cloudData ELSE local
    /\ appData' = Resume(load', appData)
    /\ UNCHANGED <<remote, save, nLoads, nSaves>>

\* The get of loadData line 67 completes or fails.
LoadIdbGet ==
    /\ load.pc = "idbGet"
    /\ \E ok \in BOOLEAN :
           load' = [LoadAfterIdbGet(load, ok, local) EXCEPT !.get = Outcome(ok)]
    /\ appData' = Resume(load', appData)
    /\ UNCHANGED <<remote, local, save, nLoads, nSaves>>

\* performSync lines 37-40: setAppData(newData), then saveData(newData).
PerformSync(S) ==
    /\ save.pc \in {"idle", "done"}
    /\ nSaves < MaxSaves
    /\ appData' = S
    /\ save' = [IdleSave EXCEPT !.pc = "idbSet", !.data = S]
    /\ nSaves' = nSaves + 1
    /\ UNCHANGED <<remote, local, load, nLoads>>

\* The put of saveData line 79 completes or fails.
SaveIdbSet ==
    /\ save.pc = "idbSet"
    /\ \E ok \in BOOLEAN :
           /\ save' = [SaveAfterIdbSet(save, ok) EXCEPT !.set = Outcome(ok)]
           /\ local' = IF ok THEN save.data ELSE local
    /\ UNCHANGED <<remote, appData, load, nLoads, nSaves>>

\* The POST completes: the store replaces its document and answers, or fails.
SaveResponse ==
    /\ save.pc = "posting"
    /\ \E outcome \in ReplaceOutcomes(save.reqBody) :
           /\ save' = [SaveAfterResponse(save, outcome) EXCEPT !.resp = outcome]
           /\ remote' = IF outcome = "ok" THEN save.reqBody ELSE remote
    /\ UNCHANGED <<local, appData, load, nLoads, nSaves>>

Rest == <<viewVars, clientVars, resetVars, adminVars, panelVars, shellVars>>

Next ==
    \/ FetchData /\ UNCHANGED Rest
    \/ LoadFetchResponse /\ UNCHANGED Rest
    \/ LoadIdbSet /\ UNCHANGED Rest
    \/ LoadIdbGet /\ UNCHANGED Rest
    \/ \E S \in SaveInputs : PerformSync(S) /\ UNCHANGED Rest
    \/ SaveIdbSet /\ UNCHANGED Rest
    \/ SaveResponse /\ UNCHANGED Rest

Spec == Init /\ [][Next]_vars

TypeOK ==
    /\ load.pc \in {"idle", "fetching", "idbSet", "idbGet", "done", "threw"}
    /\ save.pc \in {"idle", "idbSet", "posting", "done", "threw"}
    /\ nLoads \in 0..MaxLoads
    /\ nSaves \in 0..MaxSaves

\* ---------------------------------------------------------------- claims
FetchFailed(l) == l.fetch \in {"neterr", "status"}

\* What the fallback tiers of load() yield over the local cache c when the
\* local read had outcome g.
LocalOrDefault(g, c) == IF g = "ok" /\ c # Undefined THEN c ELSE INITIAL_DATA

\* C1: whatever the local cache holds (a document, nothing, or unreadable), a
\* load whose remote fetch failed never throws and returns the locally cached
\* document when one can be read, the built-in default otherwise.
C1_FallbackChain ==
    [][ FetchFailed(load') =>
          /\ load'.pc \in {"idbGet", "done"}
          /\ (load.pc = "idbGet" /\ load' # load =>
                /\ load'.pc = "done"
                /\ load'.result = LocalOrDefault(load'.get, local)) ]_vars

C1_Witness ==
    /\ load.pc = "done" /\ FetchFailed(load) /\ load.get = "ok"
    /\ load.result = local /\ load.result # INITIAL_DATA

\* C2: whenever the remote fetch succeeds with a structurally valid document
\* D, load() returns D whatever the local cache held, and at the moment it
\* returns the local cache holds D.
C2_RemoteAuthoritative ==
    [][ ( /\ load.pc # "done" /\ load'.pc = "done"
          /\ load'.fetch = "ok" /\ StructurallyValid(Parse(load'.body)) ) =>
          /\ load'.result = Parse(load'.body)
          /\ local' = Parse(load'.body) ]_vars

\* C3: a load that fetched a valid document D and failed to write it to the
\* local cache still returns D.
C3_LocalWriteFailureKeepsRemote ==
    ( /\ load.pc = "done" /\ load.set = "err"
      /\ StructurallyValid(load.cloudData) ) => load.result = load.cloudData

\* C4: a successful response whose body is a JSON array or null is never
\* returned by load() and never written to the local cache; load() returns the
\* local copy if there is one, the built-in default otherwise.
ForeignBody(l) == l.fetch = "ok" /\ Parse(l.body).kind \in {"array", "null"}

C5_AlwaysWellFormed ==
    /\ StructurallyValid(appData)
    /\ load.pc = "done" => StructurallyValid(load.result)

\* C6: for a state whose serialized size exceeds the payload ceiling, save()
\* writes the local cache, issues no remote replace request, emits no change
\* signal and returns false.
C6_SizeCeiling ==
    Size(Stringify(save.data)) > PayloadCeiling =>
        /\ ~save.posted
        /\ save.signals = 0
        /\ save.pc = "done" => save.result = "false"

\* C7: a save emits the change signal exactly once if its remote replace
\* succeeded, never if it failed, and never before the replace has succeeded.
C7_BroadcastOnSuccessOnly ==
    /\ save.signals > 0 => save.resp = "ok"
    /\ save.pc = "done" => save.signals = (IF save.resp = "ok" THEN 1 ELSE 0)

C7_Witness ==
    /\ save.pc = "done" /\ save.resp = "ok" /\ save.signals = 1
    /\ remote = Stringify(save.data)

\* C8: save(S) never throws and returns true exactly when the remote replace
\* succeeded; the remote request is only issued once the local cache holds S,
\* so a save that failed remotely returns false with S written locally.
C8_SaveResult ==
    [][ /\ save'.pc # "threw"
        /\ (save'.pc = "done" => (save'.result = "true" <=> save'.resp = "ok"))
        /\ (~save.posted /\ save'.posted => local' = save'.data)
        /\ (save'.resp \in {"neterr", "status"} =>
              save'.result = "false" /\ save'.set = "ok") ]_vars

C8_Witness ==
    /\ save.pc = "done" /\ save.resp \in {"neterr", "status"}
    /\ save.result = "false" /\ local = save.data

\* C9: a save whose local-cache write failed still attempts the remote
\* replace, and its result is that of the remote replace.
C9_LocalFailureDoesNotBlockRemote ==
    (save.pc = "done" /\ save.set = "err") =>
        /\ save.posted
        /\ save.result = "true" <=> save.resp = "ok"

\* Deep equality of two documents as JSON documents: a property whose value is
\* undefined counts as missing.
DeepEqual(a, b) == DropUndefined(a) = DropUndefined(b)

\* C10: after a successful save(S), a load whose fetch returns exactly what was
\* stored returns a document deep-equal to S, and the local cache then holds a
\* document deep-equal to S.
C10_RoundTrip ==
    [][ ( /\ load.pc # "done" /\ load'.pc = "done"
          /\ load'.rt # Undefined
          /\ load'.fetch = "ok" /\ load'.body = Stringify(load'.rt) ) =>
          /\ DeepEqual(load'.result, load'.rt)
          /\ DeepEqual(local', load'.rt) ]_vars


\* C28: a load whose remote fetch failed modifies neither the local cache nor
\* the remote store in any of its steps and attempts no local write; the local
\* copy it returns is the stored one as it is, and when it returns the
\* built-in default the local cache is left as it was (empty or unreadable).
C28_FailedFetchWritesNothing ==
    [][ FetchFailed(load') /\ load' # load =>
          /\ local' = local /\ remote' = remote
          /\ load'.set = "none"
          /\ load'.pc = "done" =>
                 \/ load'.get = "ok" /\ local' # Undefined /\ load'.result = local'
                 \/ (load'.get = "err" \/ local' = Undefined)
                        /\ load'.result = INITIAL_DATA ]_vars

\* The fetch failed, there was no local copy: the default was returned and the
\* local cache is still empty.
C28_Witness ==
    /\ load.pc = "done" /\ FetchFailed(load) /\ load.get = "ok"
    /\ load.set = "none" /\ load.result = INITIAL_DATA /\ local = Undefined
    /\ nSaves = 0 /\ remote \in RemoteInit


\* The save of S failed at the remote step and S is what the in-memory
\* AppState and the local cache hold.
Undistributed ==
    /\ save.pc = "done" /\ save.posted /\ save.result = "false"
    /\ appData = save.data /\ local = save.data

\* C34: after save(S) has failed at the remote step, with S in memory and in
\* the local cache and the older document R in the store, the next load that
\* succeeds against the remote replaces both the in-memory state and the
\* local cache with R, and no change signal is emitted.  The load is one that
\* fetched R, the document the store holds.
C34_FailedSaveDiscardedByLoad ==
    [][ ( /\ Undistributed
          /\ load.pc # "done" /\ load'.pc = "done"
          /\ load'.fetch = "ok" /\ load'.body = remote
          /\ StructurallyValid(Parse(remote)) ) =>
          /\ appData' = Parse(remote) /\ local' = Parse(remote)
          /\ remote' = remote /\ save'.signals = save.signals ]_vars

\* ================================================================ reset
\* PersistenceService of src/unnamed/part_004 (localStorage under STORAGE_KEY,
\* the remote bin behind CLOUD_API_URL) as far as resetGlobal runs it.
MaxResets == 2

\* saveData lines 43-53: localStorage.setItem returned (go on to the POST) or
\* threw (the catch of lines 60-63 returns false).
LsSaveAfterSetItem(r, ok) ==
    IF ok
    THEN [r EXCEPT !.pc = "posting", !.posted = TRUE]
    ELSE [r EXCEPT !.pc = "saved", !.result = "false"]

\* saveData lines 55-63: a success status dispatches the event and returns
\* true; any other status throws into the catch, as a network error does.
LsSaveAfterResponse(r, outcome) ==
    IF outcome = "ok"
    THEN [r EXCEPT !.pc = "saved", !.signals = @ + 1, !.result = "true"]
    ELSE [r EXCEPT !.pc = "saved", !.result = "false"]

InitReset ==
    /\ remote \in RemoteInit
    /\ ls \in {NoText, Stringify(Obj("tt2", "absent", "absent"))}
    /\ appData \in {INITIAL_DATA, Obj("tt1", "img", "img")}
    /\ reset = NoReset
    /\ local = Undefined /\ load = IdleLoad /\ save = IdleSave
    /\ nLoads = 0 /\ nSaves = 0
    /\ ViewAtRest /\ ClientAtRest /\ AdminAtRest /\ PanelAtRest /\ ShellAtRest

\* The admin confirms "Reset entire global database?" (AdminPanel.tsx line
\* 411): resetGlobal line 70 calls saveData(INITIAL_DATA), which runs up to the
\* await of its POST.  reach: whether the remote store can be reached and
\* accepts a replace while this reset runs.
ResetGlobal ==
    /\ reset.pc \in {"idle", "reloaded"}
    /\ reset.n < MaxResets
    /\ \E ok \in BOOLEAN, reach \in BOOLEAN :
           /\ reset' = [LsSaveAfterSetItem([NoReset EXCEPT !.n = reset.n, !.reach = reach], ok)
                            EXCEPT !.set = Outcome(ok)]
           /\ ls' = IF ok THEN Stringify(INITIAL_DATA) ELSE ls
    /\ UNCHANGED <<remote, local, appData, load, save, nLoads, nSaves>>
    /\ UNCHANGED <<viewVars, clientVars, adminVars, panelVars, shellVars>>

\* The POST of saveData line 49 completes.
ResetResponse ==
    /\ reset.pc = "posting"
    /\ \E outcome \in (IF reset.reach THEN {"ok"} ELSE {"neterr", "status"}) :
           /\ reset' = [LsSaveAfterResponse(reset, outcome) EXCEPT !.resp = outcome]
           /\ remote' = IF outcome = "ok" THEN Stringify(INITIAL_DATA) ELSE remote
    /\ UNCHANGED <<local, appData, load, save, nLoads, nSaves, ls>>
    /\ UNCHANGED <<viewVars, clientVars, adminVars, panelVars, shellVars>>

\* resetGlobal line 71, once the await of line 70 is over: the page is loaded
\* anew, so App is constructed again with useState(INITIAL_DATA).
ResetReload ==
    /\ reset.pc = "saved"
    /\ reset' = [reset EXCEPT !.pc = "reloaded", !.n = @ + 1]
    /\ appData' = INITIAL_DATA
    /\ UNCHANGED <<remote, local, load, save, nLoads, nSaves, ls>>
    /\ UNCHANGED <<viewVars, clientVars, adminVars, panelVars, shellVars>>

NextReset == ResetGlobal \/ ResetResponse \/ ResetReload

SpecReset == InitReset /\ [][NextReset]_vars

\* C11: reset() behaves as save(builtInDefault) followed by a full reload: the
\* reload happens only after the save has completed, and when the remote is
\* reachable both the local cache and the remote store hold the built-in
\* default once reset has finished.
C11_ResetRestoresDefault ==
    reset.pc = "reloaded" =>
        /\ reset.result \in {"true", "false"}
        /\ reset.reach =>
              /\ ls = Stringify(INITIAL_DATA)
              /\ remote = Stringify(INITIAL_DATA)

\* ================================================================ view
\* App's effect (src/unnamed/part_000 lines 30-53): the initial load, the poll
\* timer, the quadx_data_sync listener and their clean-up.  view.silent is the
\* argument of the fetchData call in flight; view.writer tells which handler
\* called setAppData last; view.overlap tells that the save and the poll's load
\* now recorded in save and load were in flight together; view.dispatched
\* counts the dispatchEvent calls made by the effect's own functions.

\* fetchData line 32: if (!silent) setIsLoading(true).
FetchDataStart_AlwaysLoading(v, silent) ==
    [v EXCEPT !.isLoading = TRUE, !.silent = silent]

FetchDataStart(v, silent) ==
    [v EXCEPT !.isLoading = IF silent THEN @ ELSE TRUE, !.silent = silent]

\* fetchData lines 34-35, after setAppData(data): if (!silent) setIsLoading(false).
FetchDataEnd_KeepsLoading(v) == [v EXCEPT !.writer = "load"]

FetchDataEnd_Dispatches(v) ==
    [v EXCEPT !.isLoading = IF v.silent THEN @ ELSE FALSE, !.writer = "load",
              !.dispatched = @ + 1]

FetchDataEnd(v) ==
    [v EXCEPT !.isLoading = IF v.silent THEN @ ELSE FALSE, !.writer = "load"]

\* The effect's clean-up, lines 49-52: removeEventListener, clearInterval.
Cleanup_NoClearInterval(v) ==
    [v EXCEPT !.phase = "torn", !.subscribed = FALSE]

Cleanup(v) ==
    [v EXCEPT !.phase = "torn", !.subscribed = FALSE, !.timer = FALSE]

InFlight(l) == l.pc \in {"fetching", "idbSet", "idbGet"}
Saving(s)   == s.pc \in {"idbSet", "posting"}

InitView ==
    /\ InitCore
    /\ ViewAtRest
    /\ ClientAtRest /\ ResetAtRest /\ AdminAtRest /\ PanelAtRest /\ ShellAtRest

\* The effect runs once after the first render (lines 38-47): fetchData(),
\* setInterval, addEventListener.
Mount ==
    /\ view.phase = "constructed"
    /\ FetchData
    /\ view' = [FetchDataStart(view, FALSE) EXCEPT
                    !.phase = "mounted", !.timer = TRUE, !.subscribed = TRUE]
    /\ UNCHANGED <<sync, clientVars, resetVars, adminVars, panelVars, shellVars>>

\* The interval fires (line 41): fetchData(true).
PollTick ==
    /\ view.timer
    /\ FetchData
    /\ view' = [FetchDataStart(view, TRUE) EXCEPT !.overlap = Saving(save)]
    /\ UNCHANGED <<sync, clientVars, resetVars, adminVars, panelVars, shellVars>>

ViewLoadFetchResponse ==
    /\ LoadFetchResponse
    /\ UNCHANGED <<viewVars, clientVars, resetVars, adminVars, panelVars, shellVars>>

ViewLoadIdbSet ==
    /\ LoadIdbSet
    /\ view' = IF load'.pc = "done" THEN FetchDataEnd(view) ELSE view
    /\ UNCHANGED <<sync, clientVars, resetVars, adminVars, panelVars, shellVars>>

ViewLoadIdbGet ==
    /\ LoadIdbGet
    /\ view' = IF load'.pc = "done" THEN FetchDataEnd(view) ELSE view
    /\ UNCHANGED <<sync, clientVars, resetVars, adminVars, panelVars, shellVars>>

\* AdminPanel is rendered by the mounted App only (part_000 line 104).
ViewPerformSync(S) ==
    /\ view.phase = "mounted"
    /\ PerformSync(S)
    /\ view' = [view EXCEPT !.writer = "save",
                            !.overlap = InFlight(load) /\ view.silent]
    /\ UNCHANGED <<sync, clientVars, resetVars, adminVars, panelVars, shellVars>>

ViewSaveIdbSet ==
    /\ SaveIdbSet
    /\ UNCHANGED <<viewVars, clientVars, resetVars, adminVars, panelVars, shellVars>>

\* handleSync lines 43-44, called with the Event (which it ignores): loadData
\* is called and issues its GET.  saved is kept in rt for the round trip only.
HandleSyncStart_TrustsLastLoad(l, saved) ==
    IF l.pc = "done" THEN l ELSE [IdleLoad EXCEPT !.pc = "fetching", !.rt = saved]

HandleSyncStart(l, saved) == [IdleLoad EXCEPT !.pc = "fetching", !.rt = saved]

\* dispatchEvent (saveData line 88) runs the listeners registered at that
\* moment before it returns: handleSync (line 43) calls loadData, which issues
\* its GET.  At most one handleSync load is recorded at a time: a replace is
\* answered once the previous one has finished.
ViewSaveResponse ==
    /\ SaveResponse
    /\ IF save'.signals > save.signals /\ view.subscribed
       THEN /\ sync.pc \in {"idle", "done"}
            /\ sync' = HandleSyncStart(sync, save.data)
       ELSE UNCHANGED sync
    /\ UNCHANGED <<view, clientVars, resetVars, adminVars, panelVars, shellVars>>

\* handleSync line 44: the steps of its loadData call.
SyncFetchResponse ==
    /\ sync.pc = "fetching"
    /\ \E outcome \in {"neterr", "status", "ok"} :
           sync' = [LoadAfterFetch(sync, outcome, remote) EXCEPT
                        !.fetch = outcome,
                        !.body = IF outcome = "ok" THEN remote ELSE NoText]
    /\ UNCHANGED <<coreVars, view, clientVars, resetVars, adminVars, panelVars, shellVars>>

\* handleSync line 45: setAppData(data).
HandleSyncEnd_Dispatches(v) == [v EXCEPT !.writer = "sync", !.dispatched = @ + 1]

HandleSyncEnd(v) == [v EXCEPT !.writer = "sync"]

SyncIdbSet ==
    /\ sync.pc = "idbSet"
    /\ \E ok \in BOOLEAN :
           /\ sync' = [LoadAfterIdbSet(sync, ok) EXCEPT !.set = Outcome(ok)]
           /\ local' = IF ok THEN sync.cloudData ELSE local
    /\ appData' = Resume(sync', appData)
    /\ view' = IF sync'.pc = "done" THEN HandleSyncEnd(view) ELSE view
    /\ UNCHANGED <<remote, load, save, nLoads, nSaves, clientVars, resetVars, adminVars, panelVars, shellVars>>

SyncIdbGet ==
    /\ sync.pc = "idbGet"
    /\ \E ok \in BOOLEAN :
           sync' = [LoadAfterIdbGet(sync, ok, local) EXCEPT !.get = Outcome(ok)]
    /\ appData' = Resume(sync', appData)
    /\ view' = IF sync'.pc = "done" THEN HandleSyncEnd(view) ELSE view
    /\ UNCHANGED <<remote, local, load, save, nLoads, nSaves, clientVars, resetVars, adminVars, panelVars, shellVars>>

\* The owning view is torn down: React runs the clean-up of lines 49-52.
Teardown ==
    /\ view.phase = "mounted"
    /\ view' = Cleanup(view)
    /\ UNCHANGED <<coreVars, sync, clientVars, resetVars, adminVars, panelVars, shellVars>>

NextView ==
    \/ Mount
    \/ PollTick
    \/ ViewLoadFetchResponse
    \/ ViewLoadIdbSet
    \/ ViewLoadIdbGet
    \/ \E S \in SaveInputs : ViewPerformSync(S)
    \/ ViewSaveIdbSet
    \/ ViewSaveResponse
    \/ SyncFetchResponse
    \/ SyncIdbSet
    \/ SyncIdbGet
    \/ Teardown

SpecView == InitView /\ [][NextView]_vars

\* A loadData call begins in this step.
Starts(l, lNext) == lNext.pc = "fetching" /\ l.pc # "fetching"

\* C12: once the owning view is torn down, the poll timer is cancelled and the
\* change-signal subscription is removed, and no poll-triggered or
\* signal-triggered load is started at any later time.
C12_TeardownStopsLoads ==
    [][ /\ view'.phase = "torn" => ~view'.timer /\ ~view'.subscribed
        /\ view.phase = "torn" => ~Starts(load, load') /\ ~Starts(sync, sync') ]_vars

\* A change signal was dispatched after the teardown, and a poll could still
\* have been started: neither led to a load.
C12_Witness ==
    /\ view.phase = "torn"
    /\ save.pc = "done" /\ save.signals = 1 /\ sync.pc = "idle"
    /\ load.pc = "done" /\ nLoads < MaxLoads

\* C13: a poll tick's load runs in silent mode: none of its steps changes the
\* loading indicator, and when it completes the in-memory AppState equals the
\* document the load returned.
C13_SilentPoll ==
    [][ view'.silent /\ load' # load =>
          /\ view'.isLoading = view.isLoading
          /\ load'.pc = "done" => appData' = load'.result ]_vars

C13_Witness ==
    /\ view.silent /\ load.pc = "done" /\ ~view.isLoading
    /\ view.writer = "load" /\ appData = load.result /\ appData # INITIAL_DATA

\* C14: whenever a save and a poll-triggered load were in flight together, the
\* in-memory AppState is the whole aggregate passed to the setAppData call that
\* ran last: the save's argument, or the document returned by the load (of the
\* poll, or of the handler of the save's change signal) that finished last;
\* never a mixture of fields of two of them.
C14_LastWriterWinsWhole ==
    /\ view.writer = "save" => appData = save.data
    /\ view.writer = "load" /\ load.pc = "done" => appData = load.result
    /\ view.writer = "sync" /\ sync.pc = "done" => appData = sync.result

\* A poll's load and a save overlapped, both are over, the load updated the
\* AppState last, and what it returned differs from the saved aggregate in
\* more than one field.
C14_Witness ==
    /\ view.overlap /\ view.silent
    /\ load.pc = "done" /\ save.pc = "done" /\ sync.pc = "idle"
    /\ view.writer = "load" /\ appData = load.result
    /\ appData.timetable # save.data.timetable
    /\ appData.campusMapImage # save.data.campusMapImage

\* A change signal is delivered to the subscribed view in this step.
Delivered == save'.signals > save.signals /\ view.subscribed

\* C23: each change signal delivered while the view is subscribed triggers
\* exactly one load by that view (and no load of the handler begins without a
\* signal); the load begins with nothing taken from the signal; and when it
\* completes, the in-memory AppState equals the document it returned.
C23_SignalTriggersOneLoad ==
    [][ /\ Delivered =>
              /\ Starts(sync, sync') /\ load' = load
              /\ sync'.body = NoText /\ sync'.cloudData = Undefined
              /\ sync'.result = Undefined
        /\ Starts(sync, sync') => Delivered
        /\ sync' # sync /\ sync'.pc = "done" => appData' = sync'.result ]_vars

\* The signal of the second save was delivered; the load it triggered has
\* completed, and the AppState is the document that load returned, which is
\* not the aggregate the save was given.
C23_Witness ==
    /\ save.pc = "done" /\ save.signals = 1 /\ nSaves = 2
    /\ sync.pc = "done" /\ sync.rt = save.data
    /\ view.writer = "sync" /\ appData = sync.result
    /\ sync.result # save.data

\* The save of S succeeded in the mounted view and no load is in flight; the
\* remote was reachable for the loads that ran, and their cache writes
\* succeeded.
Settled ==
    /\ view.phase = "mounted"
    /\ save.pc = "done" /\ save.result = "true"
    /\ ~InFlight(load) /\ ~InFlight(sync)
    /\ load.fetch = "ok" /\ load.set = "ok"
    /\ sync.fetch \in {"none", "ok"} /\ sync.set \in {"none", "ok"}

\* C33 as stated: with a single client and a reachable remote, once a
\* successful save(S) and every load in flight during it have completed, the
\* local cache and the in-memory AppState both equal the remote document S
\* (as JSON denotes it).
C33_SettledOnSaved ==
    Settled => /\ remote = Stringify(save.data)
               /\ Stringify(local) = remote
               /\ Stringify(appData) = remote

\* C33 as amended: a successful save(S) leaves S in the remote store; a load
\* whose cache write completes puts the document it fetched into the local
\* cache and into the in-memory AppState whatever a save has written since it
\* fetched, so a load that fetched before the save's replace does overwrite
\* both with the older document: the writer that completes last wins.
C33_LastCompletedLoadWins ==
    [][ /\ (save'.pc = "done" /\ save'.result = "true") =>
              remote' = Stringify(save'.data)
        /\ (load.pc = "idbSet" /\ load'.pc = "done") =>
              local' = Parse(load.body) /\ appData' = Parse(load.body)
        /\ (sync.pc = "idbSet" /\ sync'.pc = "done") =>
              local' = Parse(sync.body) /\ appData' = Parse(sync.body) ]_vars

\* A poll fetched the older document while the save was in flight; the save
\* succeeded, its signal's load brought S, and the poll's cache write came
\* last: cache and AppState hold the older document, the store holds S.
C33_Witness ==
    /\ Settled /\ view.silent /\ sync.pc = "done"
    /\ remote = Stringify(save.data) /\ load.body # remote
    /\ local = Parse(load.body) /\ appData = Parse(load.body)
    /\ Stringify(local) # remote /\ sync.result = Parse(remote)

\* The browser runs the effect after the first render, and it settles every
\* request of loadData: the fetch resolves or rejects, and so does each
\* IndexedDB request.
SpecViewFair ==
    /\ SpecView
    /\ WF_vars(Mount)
    /\ WF_vars(ViewLoadFetchResponse)
    /\ WF_vars(ViewLoadIdbSet)
    /\ WF_vars(ViewLoadIdbGet)

\* The load started by the effect's fetchData() of line 38 has completed.
FirstLoadDone == nLoads >= 2 \/ (nLoads = 1 /\ load.pc = "done")

\* C30: the loading indicator is on from start-up until the first load
\* completes, it is off in every later state, and under every combination of
\* remote and local outcomes the app eventually leaves the loading state.
C30_LoadingIndicator ==
    /\ [](view.isLoading <=> ~FirstLoadDone)
    /\ [][~view.isLoading => ~view'.isLoading]_vars
    /\ <>(~view.isLoading)

\* The first load found the remote store unreachable and no local copy, a
\* poll is in flight, and the indicator is off.
C30_Witness ==
    /\ ~view.isLoading /\ nLoads = 2 /\ load.pc = "idbGet" /\ view.silent
    /\ FetchFailed(load) /\ appData = INITIAL_DATA /\ local = Undefined
    /\ nSaves = 0

\* A pending request of loadData (of fetchData or of handleSync) or of
\* saveData is settled.
SettleStep ==
    \/ ViewLoadFetchResponse \/ ViewLoadIdbSet \/ ViewLoadIdbGet
    \/ ViewSaveIdbSet \/ ViewSaveResponse
    \/ SyncFetchResponse \/ SyncIdbSet \/ SyncIdbGet

\* The view over a store that holds a valid document or a foreign payload,
\* with an empty cache.
InitSignal ==
    /\ InitView
    /\ remote \in {Stringify(Null), Stringify(Obj("tt1", "img", "img"))}
    /\ local = Undefined

\* The browser settles every request: while one is pending, one of them is
\* eventually answered.
SpecViewSettles == InitSignal /\ [][NextView]_vars /\ WF_vars(SettleStep)

\* A loadData call in progress, of fetchData or of handleSync, takes a step.
LoadStep ==
    \/ InFlight(load) /\ load' # load
    \/ InFlight(sync) /\ sync' # sync

\* No load and no save is in flight.
Quiet == ~InFlight(load) /\ ~InFlight(sync) /\ ~Saving(save)

\* C35: no step of a load emits the change signal or starts another load;
\* the listener's load starts only in the step in which a save's signal is
\* dispatched to the subscribed view, once per signal; and when saves and
\* poll ticks have ceased, the view comes to rest with no operation in flight.
C35_SignalDoesNotFeedBack ==
    /\ [][ /\ LoadStep =>
                /\ save'.signals = save.signals
                /\ view'.dispatched = view.dispatched
                /\ ~Starts(sync, sync') /\ ~Starts(load, load')
           /\ Starts(sync, sync') =>
                /\ save'.signals = save.signals + 1 /\ view.subscribed
                /\ ~InFlight(sync) ]_vars
    /\ <>[]Quiet

\* One save succeeded; its signal's load and every other operation have
\* completed, and no second save was made.
C35_Witness ==
    /\ nSaves = 1 /\ save.pc = "done" /\ save.signals = 1
    /\ view.subscribed /\ view.dispatched = 0
    /\ sync.pc = "done" /\ view.writer = "sync" /\ Quiet

\* The load of a poll tick returns in this step.
PollReturns == view'.silent /\ load' # load /\ load'.pc = "done"

\* C24 as stated: whenever a poll tick's load returns a document that
\* differs from the in-memory AppState, the poll scheduler emits the change
\* signal, and it emits none when the document is equal.
C24_PollEmitsOnChange ==
    [][ PollReturns =>
          (load'.result # appData <=> view'.dispatched > view.dispatched) ]_vars

\* C24 as amended: whenever a poll tick's load returns, the in-memory
\* AppState becomes the returned document, and no change signal is emitted,
\* whether the document differs from the AppState held before or not: no
\* dispatch by the poll, no signal of the save, no load of the listener.
C24_PollUpdatesWithoutSignal ==
    [][ PollReturns =>
          /\ appData' = load'.result
          /\ view'.dispatched = view.dispatched
          /\ save'.signals = save.signals
          /\ ~Starts(sync, sync') ]_vars

\* A failed save had set the AppState to its argument; the poll's load that
\* returned after it brought a different document, which is now the
\* AppState, and nothing was dispatched and no listener ran.
C24_Witness ==
    /\ view.silent /\ load.pc = "done" /\ view.writer = "load"
    /\ save.pc = "done" /\ save.result = "false" /\ save.signals = 0
    /\ appData = load.result /\ appData # save.data
    /\ view.dispatched = 0 /\ view.subscribed /\ sync = IdleLoad

\* ================================================================ clients
\* Two clients of the same remote store.  This client submits complaints
\* through ComplaintBox (src/unnamed/part_001, part_000 lines 115-119) and runs
\* the loads and saves above; the other client runs the same code, of which
\* only its in-memory AppState and its effect on the remote store are kept.
\* Complaints submitted by the two clients together.
MaxSubmits == 2

\* handleSubmit lines 20-31: prev => ({...prev, complaints: [newComplaint,
\* ...prev.complaints]}).
AddComplaint_Appends(prev, id) == [prev EXCEPT !.complaints = @ \o <<id>>]

AddComplaint(prev, id) == [prev EXCEPT !.complaints = <<id>> \o @]

\* [newComplaint, ...prev.complaints] throws unless prev.complaints is a list.
HasComplaints(v) == StructurallyValid(v)

InitClients ==
    /\ InitCore
    /\ ClientAtRest
    /\ ViewAtRest /\ ResetAtRest /\ AdminAtRest /\ PanelAtRest /\ ShellAtRest

\* handleSubmit line 28 through the wrapper of part_000 lines 115-119:
\* newData = fn(appData); setAppData(newData); await saveData(newData).
HandleSubmit ==
    /\ nSaves + other.n < MaxSubmits
    /\ HasComplaints(appData)
    /\ PerformSync(AddComplaint(appData, nSaves + 1))
    /\ UNCHANGED <<viewVars, clientVars, resetVars, adminVars, panelVars, shellVars>>

\* This client's POST completes.
ClientSaveResponse ==
    /\ SaveResponse
    /\ lastReplace' = IF save'.resp = "ok" THEN save.data ELSE lastReplace
    /\ UNCHANGED <<other, viewVars, resetVars, adminVars, panelVars, shellVars>>

\* The other client's loadData returns the remote document (loadData lines
\* 54-60) and its fetchData sets it as that client's AppState.
OtherLoad ==
    /\ IsPlainObject(Parse(remote))
    /\ other' = [other EXCEPT !.data = Parse(remote)]
    /\ UNCHANGED <<coreVars, lastReplace, viewVars, resetVars, adminVars, panelVars, shellVars>>

\* The other client submits a complaint: its AppState becomes newData, and its
\* POST of JSON.stringify(newData) succeeds or fails.
OtherSubmit ==
    /\ nSaves + other.n < MaxSubmits
    /\ HasComplaints(other.data)
    /\ \E ok \in BOOLEAN :
         LET newData == AddComplaint(other.data, 10 + other.n + 1) IN
           /\ other' = [data |-> newData, n |-> other.n + 1,
                        acked |-> other.acked + (IF ok THEN 1 ELSE 0)]
           /\ remote' = IF ok THEN Stringify(newData) ELSE remote
           /\ lastReplace' = IF ok THEN newData ELSE lastReplace
    /\ UNCHANGED <<local, appData, load, save, nLoads, nSaves>>
    /\ UNCHANGED <<viewVars, resetVars, adminVars, panelVars, shellVars>>

NextClients ==
    \/ FetchData /\ UNCHANGED Rest
    \/ LoadFetchResponse /\ UNCHANGED Rest
    \/ LoadIdbSet /\ UNCHANGED Rest
    \/ LoadIdbGet /\ UNCHANGED Rest
    \/ HandleSubmit
    \/ SaveIdbSet /\ UNCHANGED Rest
    \/ ClientSaveResponse
    \/ OtherLoad
    \/ OtherSubmit

SpecClients == InitClients /\ [][NextClients]_vars

\* C15: after any sequence of saves by the clients, the remote document is
\* exactly the argument of the most recently completed successful replace:
\* each save replaces the whole document and merges nothing.
C15_LatestReplaceWins ==
    lastReplace # Undefined => remote = Stringify(lastReplace)

\* Both clients had loaded the same document; the other client's complaint 11
\* was stored remotely; this client's save, made from the earlier document,
\* completed afterwards: the remote document holds complaint 1 only.
C15_Witness ==
    /\ load.fetch = "ok" /\ load.result.timetable = "tt1"
    /\ other.acked = 1 /\ other.data = AddComplaint(load.result, 11)
    /\ save.pc = "done" /\ save.resp = "ok"
    /\ save.data = AddComplaint(load.result, 1)
    /\ lastReplace = save.data
    /\ Parse(remote).complaints = <<1>>

\* ================================================================ admin
\* The admin operations on the collections of the AppState.  The sources hold
\* four builds of the merge: processAndSave (AdminPanel.tsx lines 105-128),
\* updateAppData of AdminPanel.tsx lines 353-370, of src/unnamed/part_002 lines
\* 130-145 and of src/unnamed/part_003 lines 116-122.  op.build is the build
\* that runs; it never changes.
MaxOps == 2

Builds == {"processAndSave", "updateAppData", "part_002", "part_003"}

\* CATEGORY_MAP[category].dataKey (AdminPanel.tsx lines 17-26).
DataKey(category) ==
    CASE category = "TIMETABLE"  -> "timetable"
      [] category = "EVENT"      -> "events"
      [] category = "COMPLAINTS" -> "complaints"

\* A TimetableEntry as extractCategoryData returns it (geminiService.ts lines
\* 101-105): the extracted fields, a generated id, slots with generated ids.
Entry(id, day, division, slots) ==
    [id |-> id, day |-> day, branch |-> "Comp", year |-> "2nd Year",
     division |-> division, slots |-> slots]

\* findIndex of part_002 line 136: 0 stands for -1.
FindIndex(tt, entry) ==
    LET hits == { i \in DOMAIN tt :
                    /\ tt[i].day = entry.day /\ tt[i].branch = entry.branch
                    /\ tt[i].year = entry.year /\ tt[i].division = entry.division }
    IN IF hits = {} THEN 0 ELSE CHOOSE i \in hits : \A j \in hits : i <= j

\* findIndex of AdminPanel.tsx line 361: division is not compared.
FindIndexNoDivision(tt, entry) ==
    LET hits == { i \in DOMAIN tt :
                    /\ tt[i].day = entry.day /\ tt[i].branch = entry.branch
                    /\ tt[i].year = entry.year }
    IN IF hits = {} THEN 0 ELSE CHOOSE i \in hits : \A j \in hits : i <= j

\* items.forEach of part_002 lines 135-139.
RECURSIVE ForEachEntry(_, _)
ForEachEntry(tt, items) ==
    IF items = <<>> THEN tt
    ELSE LET entry == Head(items)
             idx == FindIndex(tt, entry)
         IN ForEachEntry(IF idx # 0
                         THEN [tt EXCEPT ![idx].slots = @ \o entry.slots]
                         ELSE Append(tt, entry),
                         Tail(items))

\* items.forEach of AdminPanel.tsx lines 360-364.
RECURSIVE ForEachEntryNoDivision(_, _)
ForEachEntryNoDivision(tt, items) ==
    IF items = <<>> THEN tt
    ELSE LET entry == Head(items)
             idx == FindIndexNoDivision(tt, entry)
         IN ForEachEntryNoDivision(IF idx # 0
                                   THEN [tt EXCEPT ![idx].slots = @ \o entry.slots]
                                   ELSE Append(tt, entry),
                                   Tail(items))

\* updateAppData of part_002 lines 130-145.
UpdateAppData_part002(prev, category, items) ==
    IF category = "TIMETABLE"
    THEN [prev EXCEPT !.timetable = ForEachEntry(@, items)]
    ELSE [prev EXCEPT ![DataKey(category)] = @ \o items]

\* updateAppData of AdminPanel.tsx lines 353-370.
UpdateAppData(prev, category, items) ==
    IF category = "TIMETABLE"
    THEN [prev EXCEPT !.timetable = ForEachEntryNoDivision(@, items)]
    ELSE [prev EXCEPT ![DataKey(category)] = @ \o items]

\* updateAppData of part_003 lines 116-122.
UpdateAppData_part003(prev, category, items) ==
    [prev EXCEPT ![DataKey(category)] = @ \o items]

\* processAndSave of AdminPanel.tsx lines 108-118: extracted is not empty.
ProcessAndSave_Prepends(prev, category, items) ==
    [prev EXCEPT ![DataKey(category)] = items \o @]

ProcessAndSave(prev, category, items) ==
    [prev EXCEPT ![DataKey(category)] = @ \o items]

MergeBy(build, prev, category, items) ==
    CASE build = "processAndSave" -> ProcessAndSave(prev, category, items)
      [] build = "updateAppData"  -> UpdateAppData(prev, category, items)
      [] build = "part_002"       -> UpdateAppData_part002(prev, category, items)
      [] build = "part_003"       -> UpdateAppData_part003(prev, category, items)

\* deleteItem (AdminPanel.tsx lines 130-135, part_003 lines 133-140):
\* filter(i => i.id !== id).
DeleteItem_KeepsOnlyId(prev, category, id) ==
    [prev EXCEPT ![DataKey(category)] = SelectSeq(@, LAMBDA i : i.id = id)]

DeleteItem(prev, category, id) ==
    [prev EXCEPT ![DataKey(category)] = SelectSeq(@, LAMBDA i : i.id # id)]

\* toggleComplaintStatus (part_003 lines 124-131, part_002 lines 152-157).
ToggleComplaintStatus_All(prev, id) ==
    [prev EXCEPT !.complaints =
        [k \in DOMAIN prev.complaints |->
            [prev.complaints[k] EXCEPT
                !.status = IF @ = "PENDING" THEN "RESOLVED" ELSE "PENDING"]]]

ToggleComplaintStatus(prev, id) ==
    [prev EXCEPT !.complaints =
        [k \in DOMAIN prev.complaints |->
            IF prev.complaints[k].id = id
            THEN [prev.complaints[k] EXCEPT
                     !.status = IF @ = "PENDING" THEN "RESOLVED" ELSE "PENDING"]
            ELSE prev.complaints[k]]]

\* handleSubmit of part_001 lines 20-31.
NewComplaint(id) == [id |-> id, status |-> "PENDING"]

SubmitComplaint(prev, id) ==
    [prev EXCEPT !.complaints = <<NewComplaint(id)>> \o @]

\* The collections after saveData has serialized them (JSON.stringify, line
\* 84 of persistenceService.ts) and loadData has parsed them back (line 56):
\* properties whose value is undefined are gone, everything else is as it was.
Reloaded_Renumbered(d) ==
    [d EXCEPT !.events =
        [k \in DOMAIN @ |->
            [@[k] EXCEPT !.id = k,
                         !.slots = IF @ = "undefined" THEN "absent" ELSE @]]]

Reloaded(d) ==
    [d EXCEPT !.events =
        [k \in DOMAIN @ |->
            [@[k] EXCEPT !.slots = IF @ = "undefined" THEN "absent" ELSE @]]]

\* ---------------------------------------------------------------- inputs
Days      == {"Mon", "Tue"}
Divisions == {"A", "B"}

\* What one extraction can return for the timetable: one or two entries, given
\* by their day and division.
TimetableBatches ==
    { <<k>> : k \in Days \X Divisions } \cup
    { <<k1, k2>> : k1 \in Days \X Divisions, k2 \in Days \X Divisions }

EventBatches == { <<"fest">>, <<"fest", "fest">> }

\* Ids come from generateId / Math.random: fresh at every operation.
FreshId(k) == 10 * (op.n + 1) + k

TimetableItems(batch) ==
    [k \in DOMAIN batch |->
        Entry(FreshId(k), batch[k][1], batch[k][2], <<100 + FreshId(k)>>)]

\* For an item without slots, line 104 of geminiService.ts sets the property
\* slots to undefined.
EventItems(batch) ==
    [k \in DOMAIN batch |->
        [id |-> FreshId(k), title |-> batch[k], slots |-> "undefined"]]

EmptyData == [timetable |-> <<>>, events |-> <<>>, complaints |-> <<>>]

AdminInit ==
    { EmptyData,
      [timetable  |-> << Entry(1, "Mon", "A", <<101>>), Entry(2, "Mon", "B", <<102>>) >>,
       events     |-> << [id |-> 3, title |-> "fest", slots |-> "absent"] >>,
       complaints |-> << [id |-> 4, status |-> "PENDING"],
                         [id |-> 5, status |-> "RESOLVED"] >>] }

IdsOf(coll) == { coll[i].id : i \in DOMAIN coll }

InitAdmin ==
    /\ adminData \in AdminInit
    /\ \E b \in Builds : op = [NoOp EXCEPT !.build = b]
    /\ remote = NoText /\ local = Undefined /\ appData = INITIAL_DATA
    /\ load = IdleLoad /\ save = IdleSave /\ nLoads = 0 /\ nSaves = 0
    /\ ViewAtRest /\ ClientAtRest /\ ResetAtRest /\ PanelAtRest /\ ShellAtRest

Frame == UNCHANGED <<coreVars, viewVars, clientVars, resetVars, panelVars, shellVars>>

\* An extraction returned items for the selected category and they are merged.
Merge(category, items) ==
    /\ op.n < MaxOps
    /\ adminData' = MergeBy(op.build, adminData, category, items)
    /\ op' = [op EXCEPT !.name = "merge", !.category = category, !.id = 0,
                        !.items = items, !.n = @ + 1]
    /\ Frame

\* The admin deletes the record id of a category; id 0 is carried by no record.
Delete(category, id) ==
    /\ op.n < MaxOps
    /\ adminData' = DeleteItem(adminData, category, id)
    /\ op' = [op EXCEPT !.name = "delete", !.category = category, !.id = id,
                        !.items = <<>>, !.n = @ + 1]
    /\ Frame

\* The admin toggles the status of complaint id.
Toggle(id) ==
    /\ op.n < MaxOps
    /\ adminData' = ToggleComplaintStatus(adminData, id)
    /\ op' = [op EXCEPT !.name = "toggle", !.category = "COMPLAINTS", !.id = id,
                        !.items = <<>>, !.n = @ + 1]
    /\ Frame

\* A student submits a complaint.
Submit ==
    /\ op.n < MaxOps
    /\ adminData' = SubmitComplaint(adminData, FreshId(0))
    /\ op' = [op EXCEPT !.name = "submit", !.category = "COMPLAINTS",
                        !.id = FreshId(0), !.items = <<>>, !.n = @ + 1]
    /\ Frame

\* The AppState is saved and loaded back from the store.
SaveAndLoad ==
    /\ op.n < MaxOps
    /\ adminData' = Reloaded(adminData)
    /\ op' = [op EXCEPT !.name = "reload", !.category = "none", !.id = 0,
                        !.items = <<>>, !.n = @ + 1]
    /\ Frame

NextAdmin ==
    \/ \E batch \in TimetableBatches : Merge("TIMETABLE", TimetableItems(batch))
    \/ \E batch \in EventBatches : Merge("EVENT", EventItems(batch))
    \/ \E category \in {"TIMETABLE", "EVENT", "COMPLAINTS"} :
          \E id \in IdsOf(adminData[DataKey(category)]) \cup {0} : Delete(category, id)
    \/ \E id \in IdsOf(adminData.complaints) \cup {0} : Toggle(id)
    \/ Submit
    \/ SaveAndLoad

SpecAdmin == InitAdmin /\ [][NextAdmin]_vars

\* ---------------------------------------------------------------- claims
\* The composite key of a timetable entry.
Key(t) == <<t.day, t.branch, t.year, t.division>>

UniqueKeys(tt) == \A i, j \in DOMAIN tt : Key(tt[i]) = Key(tt[j]) => i = j

\* The merge policy for one incoming entry: slots appended to the entry of the
\* same key if there is one, the entry appended otherwise.
MergeByKey(tt, e) ==
    IF \E i \in DOMAIN tt : Key(tt[i]) = Key(e)
    THEN [i \in DOMAIN tt |->
             IF Key(tt[i]) = Key(e)
             THEN [tt[i] EXCEPT !.slots = tt[i].slots \o e.slots]
             ELSE tt[i]]
    ELSE tt \o <<e>>

RECURSIVE MergeAllByKey(_, _)
MergeAllByKey(tt, items) ==
    IF items = <<>> THEN tt
    ELSE MergeAllByKey(MergeByKey(tt, Head(items)), Tail(items))

Did(name) == op' # op /\ op'.name = name

Collections == {"timetable", "events", "complaints"}

OthersUnchanged(key) ==
    \A c \in Collections \ {key} : adminData'[c] = adminData[c]

\* C16: merging an incoming timetable entry whose (day, branch, year,
\* division) equals that of an existing entry adds no entry and makes that
\* entry's slot list the old slots followed by the incoming ones; an incoming
\* entry with a new key is appended as a new entry and every existing entry
\* stays as it was.
C16_TimetableMergeByKey ==
    [][ ( /\ Did("merge") /\ op'.category = "TIMETABLE"
          /\ UniqueKeys(adminData.timetable) ) =>
          adminData'.timetable = MergeAllByKey(adminData.timetable, op'.items) ]_vars

\* C17: starting from unique composite keys, after any sequence of timetable
\* merges no two entries share a key, and an incoming entry that differs from
\* an existing one only in division is an entry of its own afterwards.
C17_CompositeKeysStayUnique ==
    /\ UniqueKeys(adminData.timetable)
    /\ (op.name = "merge" /\ op.category = "TIMETABLE") =>
          \A k \in DOMAIN op.items :
             \E i \in DOMAIN adminData.timetable :
                Key(adminData.timetable[i]) = Key(op.items[k])

\* C18: merging a batch into a collection other than the timetable yields the
\* old records followed by the batch in order, nothing dropped or
\* deduplicated, and leaves every other collection unchanged.
C18_AppendOnly ==
    [][ (Did("merge") /\ op'.category # "TIMETABLE") =>
          /\ adminData'[DataKey(op'.category)] =
                 adminData[DataKey(op'.category)] \o op'.items
          /\ OthersUnchanged(DataKey(op'.category)) ]_vars

C18_Witness ==
    /\ op.name = "merge" /\ op.category = "EVENT" /\ op.build = "processAndSave"
    /\ Len(op.items) = 2 /\ Len(adminData.events) = 3
    /\ adminData.events[1] = [id |-> 3, title |-> "fest", slots |-> "absent"]
    /\ adminData.events[2].title = "fest" /\ adminData.events[3].title = "fest"

\* The records of coll that do not carry id, in their order.
RECURSIVE Without(_, _)
Without(coll, id) ==
    IF coll = <<>> THEN <<>>
    ELSE IF Head(coll).id = id THEN Without(Tail(coll), id)
         ELSE <<Head(coll)>> \o Without(Tail(coll), id)

StatusesOK(d) ==
    \A k \in DOMAIN d.complaints : d.complaints[k].status \in {"PENDING", "RESOLVED"}

StartsWith(s, p) == Len(p) <= Len(s) /\ SubSeq(s, 1, Len(p)) = p

IdSeq(coll) == [i \in DOMAIN coll |-> coll[i].id]

Keep(seq, S) == SelectSeq(seq, LAMBDA x : x \in S)

\* The records of old that are still in new carry the ids they had, in the
\* order they had, and every other id of new came in with the operation.
SurvivorsKeepIds(old, new, incoming) ==
    /\ Keep(IdSeq(new), IdsOf(old)) = Keep(IdSeq(old), IdsOf(new))
    /\ IdsOf(new) \ IdsOf(old) \subseteq incoming

\* C29: the identifier of every record that survives an operation is
\* unchanged by it.  Across a merge, a delete, a complaint toggle, a
\* submission and a save followed by a load, the surviving records of every
\* collection keep their ids and their order, an id is attached to the same
\* event title and timetable key as before, the slots an entry had are still
\* its first slots, and the only new ids are those of the incoming records.
C29_IdsUnchanged ==
    [][ op' # op =>
          /\ \A c \in Collections :
                 SurvivorsKeepIds(adminData[c], adminData'[c],
                                  IdsOf(op'.items) \cup {op'.id})
          /\ \A i \in DOMAIN adminData.events, j \in DOMAIN adminData'.events :
                 adminData'.events[j].id = adminData.events[i].id =>
                     adminData'.events[j].title = adminData.events[i].title
          /\ \A i \in DOMAIN adminData.timetable, j \in DOMAIN adminData'.timetable :
                 adminData'.timetable[j].id = adminData.timetable[i].id =>
                     /\ Key(adminData'.timetable[j]) = Key(adminData.timetable[i])
                     /\ StartsWith(adminData'.timetable[j].slots,
                                   adminData.timetable[i].slots) ]_vars

\* An extracted event was merged, then saved and loaded back: it lost its
\* undefined slots property and kept its id, behind the event that was there.
C29_Witness ==
    /\ op.name = "reload" /\ op.n = 2
    /\ Len(adminData.events) >= 2
    /\ adminData.events[1].id = 3
    /\ adminData.events[2].id = 11 /\ adminData.events[2].slots = "absent"

\* ======================================================================
\* AdminPanel and ComplaintBox: what a view shows about the save it started
\* (AdminPanel.tsx:36-128, part_001:15-39, part_000:115-119), with the poll
\* of part_000:41 running in the background.
Pushing  == "Pushing updates to Cloud..."
Success  == "SUCCESS: Data Live Globally!"
CloudErr == "ERROR: Cloud Bin Unavailable"
NoRecords == "AI found no records. Check file content."
ParseErr == "AI failed to parse content."
Redrawing == "AI Redrawing Map..."
Parsing  == "AI Parsing Text..."

\* performSync lines 37-38.
PerformSyncStart(u) ==
    [u EXCEPT !.origin = "admin", !.isProcessing = TRUE, !.statusMsg = Pushing]

\* performSync lines 41-43, run when saveData has returned success.
PerformSyncEnd(u, success) ==
    [u EXCEPT !.origin = "none",
              !.statusMsg = IF success THEN Success ELSE CloudErr,
              !.isProcessing = FALSE,
              !.clearTimer = TRUE]

\* handleSubmit lines 16-18 of part_001.
HandleSubmitStart(u) == [u EXCEPT !.origin = "complaint", !.isSyncing = TRUE]

\* handleSubmit lines 29-31 of part_001, run when the setAppData prop of
\* part_000:115-119 has resolved; that wrapper drops what saveData returned.
HandleSubmitEnd(u, success) ==
    [u EXCEPT !.origin = "none", !.submitted = TRUE, !.isSyncing = FALSE]

\* The continuation of the view that awaits the save s, once it has returned.
AfterSave(u, s) ==
    IF s.pc # "done" THEN u
    ELSE IF u.origin = "admin" THEN PerformSyncEnd(u, s.result = "true")
    ELSE IF u.origin = "complaint" THEN HandleSubmitEnd(u, s.result = "true")
    ELSE u

\* The status an admin save that failed was reported with, by payload size.
Remember(u, uNext, s) ==
    IF s.pc = "done" /\ s.result = "false" /\ u.origin = "admin"
    THEN IF Size(Stringify(s.data)) > PayloadCeiling
         THEN [uNext EXCEPT !.failedAs.large = uNext.statusMsg]
         ELSE [uNext EXCEPT !.failedAs.small = uNext.statusMsg]
    ELSE uNext

\* Uploads and pasted text the admin hands to an ingestion.
MapImages == {"img", "huge"}
EventBatchIds == { <<>>, <<71>> }

InitPanel ==
    /\ InitCore
    /\ ui = NoUi
    /\ ingest = NoIngest
    /\ ViewAtRest /\ ClientAtRest /\ ResetAtRest /\ AdminAtRest /\ ShellAtRest

PanelRest == <<viewVars, clientVars, resetVars, adminVars, shellVars>>

\* The 15 s timer of part_000:41 fires, and the steps of its loadData.
PanelPoll == FetchData /\ UNCHANGED <<PanelRest, panelVars, shellVars>>
PanelLoadFetchResponse == LoadFetchResponse /\ UNCHANGED <<PanelRest, panelVars, shellVars>>
PanelLoadIdbSet == LoadIdbSet /\ UNCHANGED <<PanelRest, panelVars, shellVars>>
PanelLoadIdbGet == LoadIdbGet /\ UNCHANGED <<PanelRest, panelVars, shellVars>>

Busy(u) == u.origin # "none"

\* "Force Global Refresh" (AdminPanel.tsx:152): performSync(appData).
ForceRefresh ==
    /\ ~Busy(ui) /\ ~ui.isProcessing
    /\ PerformSync(appData)
    /\ ui' = PerformSyncStart(ui)
    /\ UNCHANGED <<PanelRest, ingest>>

\* What the student may have typed into the form.
Texts == {"", "  ", "leak"}

\* String.prototype.trim.
Trim(text) == IF text = "  " THEN "" ELSE text

\* The textarea's onChange (part_001:79): setComplaintText.
TypeText ==
    /\ ui.origin # "admin" /\ ~ui.isProcessing /\ ~ui.submitted
    /\ \E text \in Texts :
          /\ text # ui.complaintText
          /\ ui' = [ui EXCEPT !.complaintText = text]
    /\ UNCHANGED <<coreVars, PanelRest, ingest>>

\* handleSubmit line 17: if (!complaintText.trim() || isSyncing) return.
Ignored(u) == Trim(u.complaintText) = "" \/ u.isSyncing

\* handleSubmit of part_001:15-28 with the setAppData prop of part_000:115-117:
\* a submit that line 17 ignores changes nothing; otherwise isSyncing is set
\* and the prop computes fn(appData), where the spread of a missing
\* complaints collection throws: handleSubmit ends there, with no save and
\* isSyncing left set.
PanelSubmit ==
    /\ ui.origin # "admin" /\ ~ui.isProcessing /\ ~ui.submitted
    /\ IF Ignored(ui)
       THEN UNCHANGED <<coreVars, ui>>
       ELSE IF HasComplaints(appData)
       THEN /\ PerformSync(AddComplaint(appData, nSaves + 1))
            /\ ui' = HandleSubmitStart(ui)
       ELSE /\ ui' = [ui EXCEPT !.isSyncing = TRUE]
            /\ UNCHANGED coreVars
    /\ UNCHANGED <<PanelRest, ingest>>

\* The steps of saveData; when it returns, the awaiting view goes on.
PanelSaveIdbSet ==
    /\ SaveIdbSet
    /\ ui' = Remember(ui, AfterSave(ui, save'), save')
    /\ UNCHANGED <<PanelRest, ingest>>

PanelSaveResponse ==
    /\ SaveResponse
    /\ ui' = Remember(ui, AfterSave(ui, save'), save')
    /\ UNCHANGED <<PanelRest, ingest>>

\* The timer of performSync line 43 fires: setStatusMsg('').
ClearStatus ==
    /\ ui.clearTimer
    /\ ui' = [ui EXCEPT !.statusMsg = "", !.clearTimer = FALSE]
    /\ UNCHANGED <<coreVars, PanelRest, ingest>>

\* The timer of part_001:32 fires: onBack leaves the complaint view, and the
\* next visit mounts it anew.
ComplaintBack ==
    /\ ui.submitted
    /\ ui' = [ui EXCEPT !.submitted = FALSE, !.complaintText = ""]
    /\ UNCHANGED <<coreVars, PanelRest, ingest>>

\* processAndSave lines 109-116 for the EVENT category (dataKey 'events'):
\* the batch is appended to the collection of the appData the handler holds.
ProcessAndSaveMerge(closure, extracted) == [closure EXCEPT !.events = @ \o extracted]

\* processAndSave lines 110-127, from the collaborator's answer on: a batch
\* is merged and synced, an empty answer is reported, and the spread of a
\* missing collection throws into the catch of line 123.
ProcessOutcome_SyncsEmpty(closure, extracted) ==
    IF HasComplaints(closure) THEN "sync" ELSE "threw"

ProcessOutcome(closure, extracted) ==
    IF Len(extracted) > 0
    THEN IF HasComplaints(closure) THEN "sync" ELSE "threw"
    ELSE "empty"

\* processAndSave lines 120-121 and 125-126.
ProcessAndSaveEnd(u, outcome) ==
    [u EXCEPT !.statusMsg = IF outcome = "empty" THEN NoRecords ELSE ParseErr,
              !.isProcessing = FALSE]

\* handleFileUpload line 66.
MapUpdate_KeepsStylized(closure, base64, stylized) ==
    [closure EXCEPT !.campusMapImage = base64,
                    !.stylizedMapImage = IF stylized = "null" THEN @ ELSE stylized]

MapUpdate(closure, base64, stylized) ==
    [closure EXCEPT !.campusMapImage = base64,
                    !.stylizedMapImage = IF stylized = "null" THEN "undefined"
                                         ELSE stylized]

\* handleManualTextSubmit lines 98-101 (handleFileUpload lines 50-51 and 89
\* alike): the panel enters its processing state and calls the extraction
\* collaborator with the appData prop of this render.
StartIngest ==
    /\ ingest.pc = "idle" /\ ~ui.isProcessing /\ ~Busy(ui)
    /\ nSaves < MaxSaves
    /\ ui' = [ui EXCEPT !.isProcessing = TRUE, !.statusMsg = Parsing]
    /\ ingest' = [NoIngest EXCEPT !.pc = "extracting", !.appData = appData]
    /\ UNCHANGED <<coreVars, PanelRest>>

\* extractCategoryData returns (geminiService.ts:60-107): a batch of records
\* with fresh ids, or [] for nothing recognised, no schema, or a failure.
ExtractionReturns ==
    /\ ingest.pc = "extracting"
    /\ \E extracted \in EventBatchIds :
         LET outcome == ProcessOutcome(ingest.appData, extracted) IN
           /\ ingest' = [NoIngest EXCEPT !.returned =
                             IF extracted = <<>> THEN "empty" ELSE "records"]
           /\ IF outcome = "sync"
              THEN /\ PerformSync(ProcessAndSaveMerge(ingest.appData, extracted))
                   /\ ui' = PerformSyncStart(ui)
              ELSE /\ ui' = ProcessAndSaveEnd(ui, outcome)
                   /\ UNCHANGED coreVars
    /\ UNCHANGED PanelRest

\* handleFileUpload lines 50-51 and 62-65 for a map image.
UploadMap ==
    /\ ingest.pc = "idle" /\ ~ui.isProcessing /\ ~Busy(ui)
    /\ nSaves < MaxSaves
    /\ \E base64 \in MapImages :
           ingest' = [NoIngest EXCEPT !.pc = "stylizing", !.appData = appData,
                                      !.image = base64]
    /\ ui' = [ui EXCEPT !.isProcessing = TRUE, !.statusMsg = Redrawing]
    /\ UNCHANGED <<coreVars, PanelRest>>

\* stylizeMapImage returns an image or null (geminiService.ts:109-125), and
\* handleFileUpload lines 66-67 go on.
StylizeReturns ==
    /\ ingest.pc = "stylizing"
    /\ \E stylized \in {"img", "null"} :
           /\ PerformSync(MapUpdate(ingest.appData, ingest.image, stylized))
           /\ ingest' = [NoIngest EXCEPT !.returned =
                             IF stylized = "null" THEN "null" ELSE "image"]
    /\ ui' = PerformSyncStart(ui)
    /\ UNCHANGED PanelRest

\* The views and their saves, without the background poll.
NextStatus ==
    \/ ForceRefresh
    \/ TypeText
    \/ PanelSubmit
    \/ UploadMap
    \/ StylizeReturns
    \/ PanelSaveIdbSet
    \/ PanelSaveResponse
    \/ ClearStatus
    \/ ComplaintBack

SpecStatus == InitPanel /\ [][NextStatus]_vars

\* The admin's text and file ingestions with the poll running in the
\* background.
NextIngest ==
    \/ PanelPoll
    \/ PanelLoadFetchResponse
    \/ PanelLoadIdbSet
    \/ PanelLoadIdbGet
    \/ StartIngest
    \/ ExtractionReturns
    \/ PanelSaveIdbSet
    \/ PanelSaveResponse

SpecIngest == InitPanel /\ [][NextIngest]_vars

\* ---------------------------------------------------------------- claims
\* The save of this step returns false.
ReturnsFalse == save.pc # "done" /\ save'.pc = "done" /\ save'.result = "false"

\* C21: whenever a save started from a view returns false, that view shows a
\* failure status and no success indication, for an admin sync and for a
\* student's complaint submission alike.
C21_FailedSaveShowsFailure ==
    [][ReturnsFalse =>
           /\ ui.origin = "admin" =>
                  ui'.statusMsg = CloudErr /\ ~ui'.isProcessing
           /\ ui.origin = "complaint" => ~ui'.submitted]_vars

\* C22: a save rejected because the payload is too large is reported to the
\* admin with a status different from the one a generic remote failure of a
\* payload within the ceiling is reported with.
C22_TooLargeReportedDistinctly ==
    ui.failedAs.large # "none" /\ ui.failedAs.small # "none"
        => ui.failedAs.large # ui.failedAs.small

\* An ingestion performs its merge in this step and hands the result to save.
MergePerformed == ingest.pc # "idle" /\ ingest'.pc = "idle" /\ nSaves' # nSaves

\* C26: the batch of an admin ingestion is merged into the AppState that is
\* current when the merge is performed: whatever entered the in-memory
\* AppState through a poll while the extraction was running is still in the
\* state passed to save().
C26_MergeIntoCurrent ==
    [][ MergePerformed =>
          /\ save'.data.timetable = appData.timetable
          /\ save'.data.complaints = appData.complaints
          /\ save'.data.campusMapImage = appData.campusMapImage
          /\ save'.data.stylizedMapImage = appData.stylizedMapImage
          /\ StartsWith(save'.data.events, appData.events) ]_vars

\* The extraction collaborator returns an empty result in this step.
ReturnsEmpty == ingest.pc = "extracting" /\ ingest'.returned = "empty"

\* C27: when the extraction collaborator returns an empty result, no save is
\* attempted, the in-memory AppState, the local cache and the remote store
\* are unchanged, and the admin view leaves its processing state.
C27_EmptyExtractionChangesNothing ==
    [][ ReturnsEmpty =>
          /\ save' = save /\ nSaves' = nSaves
          /\ appData' = appData /\ local' = local /\ remote' = remote
          /\ ui.isProcessing /\ ~ui'.isProcessing /\ ~Busy(ui') ]_vars

\* An extraction that ran while a poll brought a new document returned
\* nothing: the panel is idle again, no save was ever started, and the
\* AppState is still the polled document.
C27_Witness ==
    /\ ingest.pc = "idle" /\ ingest.returned = "empty"
    /\ ~ui.isProcessing /\ ui.statusMsg = NoRecords
    /\ nSaves = 0 /\ save = IdleSave
    /\ load.pc = "done" /\ appData = load.result /\ appData # INITIAL_DATA

\* ================================================================ local-only
\* The PersistenceService of src/unnamed/part_003:283-327, the build that has
\* no remote store configured: localStorage under STORAGE_KEY is all it uses.

\* loadData lines 287-297.  The stored text is always one that saveData wrote,
\* so JSON.parse returns its value.
LocalLoadData_AlwaysDefault(text) == INITIAL_DATA

LocalLoadData(text) == IF text # NoText THEN Parse(text) ELSE INITIAL_DATA

\* saveData lines 304-305 and 314-317: setItem returned (go on to the 500 ms
\* delay) or threw (the catch returns false).
LocalSaveAfterSetItem(s, ok) ==
    IF ok
    THEN [s EXCEPT !.pc = "delay"]
    ELSE [s EXCEPT !.pc = "done", !.result = "false"]

\* saveData lines 310-313, once the delay is over: dispatch, return true.
LocalSaveAfterDelay(s) ==
    [s EXCEPT !.pc = "done", !.signals = @ + 1, !.result = "true"]

InitLocal ==
    /\ remote \in RemoteInit
    /\ ls \in {NoText, Stringify(Obj("tt2", "absent", "absent"))}
    /\ appData = INITIAL_DATA
    /\ local = Undefined /\ load = IdleLoad /\ save = IdleSave
    /\ nLoads = 0 /\ nSaves = 0
    /\ reset = NoReset
    /\ ViewAtRest /\ ClientAtRest /\ AdminAtRest /\ PanelAtRest /\ ShellAtRest

LocalFrame == UNCHANGED <<local, reset, viewVars, clientVars, adminVars, panelVars, shellVars>>

\* fetchData / handleSync with this service: loadData has no await in it, so
\* it returns within the step, and setAppData(data) follows.
LocalLoad ==
    /\ nLoads < MaxLoads
    /\ load' = [IdleLoad EXCEPT !.pc = "done", !.result = LocalLoadData(ls)]
    /\ appData' = Resume(load', appData)
    /\ nLoads' = nLoads + 1
    /\ UNCHANGED <<remote, ls, save, nSaves>>
    /\ LocalFrame

\* deployToGlobal lines 142-144 of part_003: saveData(appData) up to its await.
LocalSave(S) ==
    /\ save.pc \in {"idle", "done"}
    /\ nSaves < MaxSaves
    /\ \E ok \in BOOLEAN :
           /\ save' = [LocalSaveAfterSetItem([IdleSave EXCEPT !.data = S], ok)
                           EXCEPT !.set = Outcome(ok)]
           /\ ls' = IF ok THEN Stringify(S) ELSE ls
    /\ appData' = S
    /\ nSaves' = nSaves + 1
    /\ UNCHANGED <<remote, load, nLoads>>
    /\ LocalFrame

\* The 500 ms timer of saveData line 308 fires.
LocalSaveDelay ==
    /\ save.pc = "delay"
    /\ save' = LocalSaveAfterDelay(save)
    /\ UNCHANGED <<remote, ls, appData, load, nLoads, nSaves>>
    /\ LocalFrame

NextLocal ==
    \/ LocalLoad
    \/ \E S \in SaveInputs : LocalSave(S)
    \/ LocalSaveDelay

SpecLocal == InitLocal /\ [][NextLocal]_vars

Truthy(img) == img \notin {"absent", "undefined"}

\* CampusMap line 12: the initial value of the viewMode state.
InitialViewMode(data) ==
    IF Truthy(data.stylizedMapImage) THEN "STYLIZED" ELSE "ORIGINAL"

\* CampusMap lines 14-16: which image the view shows: the property of data
\* that viewMode selects, or the placeholder when that property is empty.
CurrentImage(data, viewMode) ==
    LET field == IF viewMode = "STYLIZED" THEN "stylizedMapImage"
                 ELSE "campusMapImage"
    IN IF Truthy(data[field]) THEN field ELSE "placeholder"

\* The student opens the map module: CampusMap mounts (line 12).
OpenMap ==
    /\ ~mapView.open
    /\ ingest.pc = "idle" /\ ~ui.isProcessing
    /\ mapView' = [open |-> TRUE, viewMode |-> InitialViewMode(appData)]
    /\ UNCHANGED <<coreVars, panelVars, viewVars, clientVars, resetVars,
                   adminVars, builtin, login>>

\* The button of CampusMap lines 34-41, rendered while data.stylizedMapImage
\* is there.
ToggleViewMode ==
    /\ mapView.open /\ Truthy(appData.stylizedMapImage)
    /\ mapView' = [mapView EXCEPT !.viewMode =
                      IF @ = "STYLIZED" THEN "ORIGINAL" ELSE "STYLIZED"]
    /\ UNCHANGED <<coreVars, panelVars, viewVars, clientVars, resetVars,
                   adminVars, builtin, login>>

\* onBack: the view unmounts and its state is gone.
CloseMap ==
    /\ mapView.open
    /\ mapView' = NoMap
    /\ UNCHANGED <<coreVars, panelVars, viewVars, clientVars, resetVars,
                   adminVars, builtin, login>>

\* The admin's map uploads and the student's map view, on one device. The
\* admin panel takes the place of the modules, so an upload begins with the
\* map view closed.
NextUpload ==
    \/ ~mapView.open /\ UploadMap
    \/ StylizeReturns
    \/ PanelSaveIdbSet
    \/ PanelSaveResponse
    \/ OpenMap
    \/ ToggleViewMode
    \/ CloseMap

SpecUpload == InitPanel /\ [][NextUpload]_vars

\* The stylization collaborator returns none in this step.
StylizedNone == ingest.pc = "stylizing" /\ ingest'.returned = "null"

\* C31: when the stylization collaborator returns none for an uploaded map
\* image, the aggregate handed to save, and the document its serialization
\* denotes, hold the raw image and no stylized image; and a map view opened
\* on an aggregate with a raw and no stylized image displays the raw image.
C31_RawMapWithoutStylized ==
    [][ /\ StylizedNone =>
              LET stored == Parse(Stringify(save'.data)) IN
                /\ save'.data.campusMapImage = ingest.image
                /\ ~Truthy(save'.data.stylizedMapImage)
                /\ stored.campusMapImage = ingest.image
                /\ stored.stylizedMapImage = "absent"
        /\ ( /\ ~mapView.open /\ mapView'.open
             /\ Truthy(appData.campusMapImage)
             /\ ~Truthy(appData.stylizedMapImage) ) =>
              CurrentImage(appData, mapView'.viewMode) = "campusMapImage" ]_vars

\* A first upload was stylized, the second was not: its save succeeded, the
\* store holds the raw image alone, and the map view, opened afterwards,
\* shows the raw image.
C31_Witness ==
    /\ nSaves = 2 /\ save.pc = "done" /\ save.result = "true"
    /\ ingest.returned = "null" /\ appData = save.data
    /\ appData.campusMapImage = "img" /\ appData.stylizedMapImage = "undefined"
    /\ Parse(remote).campusMapImage = "img"
    /\ Parse(remote).stylizedMapImage = "absent"
    /\ mapView.open /\ mapView.viewMode = "ORIGINAL"
    /\ CurrentImage(appData, mapView.viewMode) = "campusMapImage"

\* Another device's admin uploads a map (handleFileUpload there, line 66, and
\* the PUT of saveData): the store then holds the raw image, with the stylized
\* one when the collaborator gave one and without it otherwise.
OtherUpload ==
    /\ Parse(remote).kind = "object"
    /\ \E stylized \in {"img", "null"} :
          /\ remote' = Stringify(MapUpdate(Parse(remote), "img", stylized))
          /\ remote' # remote
    /\ UNCHANGED <<local, appData, load, save, nLoads, nSaves,
                   PanelRest, panelVars>>

\* The student's map view while the poll refreshes appData under it.
NextMap ==
    \/ PanelPoll
    \/ PanelLoadFetchResponse
    \/ PanelLoadIdbSet
    \/ PanelLoadIdbGet
    \/ OtherUpload
    \/ OpenMap
    \/ ToggleViewMode
    \/ CloseMap

SpecMap == InitPanel /\ [][NextMap]_vars

\* C38: whenever the aggregate shown by the open map view holds a raw map
\* image, the view displays the raw or the stylized image, never the
\* placeholder.
C38_NeverPlaceholderWithRawImage ==
    (mapView.open /\ Truthy(appData.campusMapImage)) =>
        CurrentImage(appData, mapView.viewMode) # "placeholder"

\* ================================================================ built-in default
\* INITIAL_DATA is one object of the module constants: useState(INITIAL_DATA)
\* (part_000 line 20) and the last line of loadData (part_004 line 35) hand
\* out that object itself, and resetGlobal (part_004 line 70) serializes it.
\* builtin.timetable is what its timetable array holds now, builtin.pristine
\* what it held when the module was evaluated, builtin.shared whether the
\* in-memory state's timetable is that same array; adminData is the in-memory
\* state.

\* What the timetable of the default may be; constants.ts fixes one of them.
DefaultTimetables == { <<>>, << Entry(1, "Mon", "A", <<101>>) >> }

InitDefault ==
    /\ \E tt \in DefaultTimetables :
          /\ builtin = [NoBuiltin EXCEPT !.pristine = tt, !.timetable = tt,
                                        !.shared = TRUE]
          /\ adminData = [EmptyData EXCEPT !.timetable = tt]
    /\ \E b \in Builds : op = [NoOp EXCEPT !.build = b]
    /\ remote = NoText /\ local = Undefined /\ appData = INITIAL_DATA
    /\ load = IdleLoad /\ save = IdleSave /\ nLoads = 0 /\ nSaves = 0
    /\ login = NoLogin /\ mapView = NoMap
    /\ ViewAtRest /\ ClientAtRest /\ ResetAtRest /\ PanelAtRest

DefaultFrame ==
    UNCHANGED <<coreVars, viewVars, clientVars, resetVars, panelVars, login, mapView>>

\* The builds whose timetable merge works on the array of the previous state:
\* newData = { ...prev } copies the reference, then push and the assignment to
\* newData.timetable[idx].slots change that array and its entries
\* (AdminPanel.tsx lines 355-364, part_002 lines 132-139).
InPlace(build) == build \in {"updateAppData", "part_002"}

\* What the timetable array of INITIAL_DATA holds after a timetable merge that
\* led from the state with timetable before to the one with timetable after.
AfterMerge(b, build, after) ==
    IF ~b.shared THEN b
    ELSE IF InPlace(build) THEN [b EXCEPT !.timetable = after]
    ELSE [b EXCEPT !.shared = FALSE]

\* An extraction returned timetable entries and they are merged.
DefaultMerge ==
    /\ op.n < MaxOps
    /\ \E batch \in TimetableBatches :
        LET items == TimetableItems(batch) IN
          /\ adminData' = MergeBy(op.build, adminData, "TIMETABLE", items)
          /\ builtin' = AfterMerge(builtin, op.build, adminData'.timetable)
          /\ op' = [op EXCEPT !.name = "merge", !.category = "TIMETABLE", !.id = 0,
                              !.items = items, !.n = @ + 1]
    /\ DefaultFrame

\* loadData of part_004 lines 14-36 completes: with a document in the store
\* it returns the parsed document (lines 19-22, 30), with none INITIAL_DATA
\* itself (line 35).
DefaultLoad ==
    /\ op.n < MaxOps
    /\ IF builtin.saved
       THEN /\ adminData' = [adminData EXCEPT !.timetable = builtin.posted]
            /\ builtin' = [builtin EXCEPT !.shared = FALSE]
       ELSE /\ adminData' = [adminData EXCEPT !.timetable = builtin.timetable]
            /\ builtin' = [builtin EXCEPT !.shared = TRUE]
    /\ op' = [op EXCEPT !.name = "load", !.category = "none", !.id = 0,
                        !.items = <<>>, !.n = @ + 1]
    /\ DefaultFrame

\* resetGlobal (part_004 lines 69-72): saveData serializes INITIAL_DATA as it
\* is now (line 46), then the page is reloaded: the module constants is
\* evaluated anew and the state starts from useState(INITIAL_DATA).
DefaultReset ==
    /\ op.n < MaxOps /\ builtin.resets < MaxResets
    /\ builtin' = [builtin EXCEPT !.saved = TRUE, !.posted = builtin.timetable,
                                  !.timetable = builtin.pristine,
                                  !.shared = TRUE, !.resets = @ + 1]
    /\ adminData' = [adminData EXCEPT !.timetable = builtin.pristine]
    /\ op' = [op EXCEPT !.name = "reset", !.category = "none", !.id = 0,
                        !.items = <<>>, !.n = @ + 1]
    /\ DefaultFrame

NextDefault ==
    \/ DefaultMerge
    \/ DefaultLoad
    \/ DefaultReset

SpecDefault == InitDefault /\ [][NextDefault]_vars

\* C32: the built-in default aggregate is never modified: its timetable is
\* the pristine one in every state, and the default document that reset has
\* saved is the pristine one.
C32_DefaultStaysPristine ==
    /\ builtin.timetable = builtin.pristine
    /\ builtin.saved => builtin.posted = builtin.pristine

\* ================================================================ complaint form
\* The complaint form of part_001 on a device whose poll refreshes appData
\* under it.
NextForm ==
    \/ PanelPoll
    \/ PanelLoadFetchResponse
    \/ PanelLoadIdbSet
    \/ PanelLoadIdbGet
    \/ TypeText
    \/ PanelSubmit
    \/ PanelSaveIdbSet
    \/ PanelSaveResponse
    \/ ComplaintBack

SpecForm == InitPanel /\ [][NextForm]_vars

\* handleSubmit went past line 17 in this step.
Accepted == ~ui.isSyncing /\ ui'.isSyncing

\* C36: the form has at most one submission in flight: a save is pending
\* only while isSyncing is set; while isSyncing is set, or the text is empty
\* or blank, no step starts a save or touches the complaints of the AppState
\* (a load's result apart); and each accepted submit starts one save whose
\* aggregate has exactly one complaint more than the AppState had.
C36_OneSubmissionInFlight ==
    [][ /\ Saving(save') => ui'.isSyncing
        /\ (ui.isSyncing \/ Trim(ui.complaintText) = "") =>
              /\ nSaves' = nSaves
              /\ load' = load => appData' = appData
        /\ Accepted =>
              /\ nSaves' = nSaves + 1
              /\ Len(save'.data.complaints) = Len(appData.complaints) + 1
              /\ appData' = save'.data ]_vars

\* A complaint is submitted in this step.
Submits == Accepted /\ nSaves' = nSaves + 1

\* C37: submitting a complaint saves an aggregate in which the new complaint
\* is the first element of complaints, the previous complaints follow in
\* their order, and every other collection is as it was; that aggregate is
\* what the save writes to the cache and sends to the store.
C37_NewComplaintFirst ==
    [][ /\ Submits =>
              /\ Head(save'.data.complaints) = nSaves'
              /\ Tail(save'.data.complaints) = appData.complaints
              /\ [save'.data EXCEPT !.complaints = appData.complaints] = appData
        /\ (ui.origin = "complaint" /\ save.pc = "idbSet" /\ save'.pc = "posting") =>
              /\ local' = save.data
              /\ Parse(save'.reqBody).complaints = save.data.complaints ]_vars

\* The second complaint was submitted after the first and saved: it comes
\* first, the first one follows.
C37_Witness ==
    /\ nSaves = 2 /\ save.pc = "done" /\ save.result = "true"
    /\ save.data.complaints = <<2, 1>>
    /\ appData = save.data /\ local = save.data
    /\ Parse(remote).complaints = <<2, 1>>
    /\ ui.submitted /\ ~ui.isSyncing

\* ================================================================ admin login
\* The hidden admin entry of App (part_000): logoTaps is a ref, so count
\* lives as long as App; lastTime enters only through the gap between a tap
\* and the tap before it, which is the input of a tap.  login.taps is not
\* state of the program: it lists the gaps before the last three taps, from
\* the tap after the last third quick tap on; login.n counts the taps.
MaxTaps == 5

\* Milliseconds between a tap and the previous one.  Before the first tap
\* lastTime is 0, so its gap is Date.now() itself.
Gaps == {10, 999, 1000, 5000}
FirstGap == 5000

Passwords == {"VP@123", "vp@123", ""}

\* handleLogoClick, lines 63-76.
HandleLogoClick_Inclusive(l, gap) ==
    LET count == IF gap <= 1000 THEN l.count + 1 ELSE 1 IN
      IF count = 3
      THEN [l EXCEPT !.count = 0, !.showAdminLogin = TRUE]
      ELSE [l EXCEPT !.count = count]

HandleLogoClick(l, gap) ==
    LET count == IF gap < 1000 THEN l.count + 1 ELSE 1 IN
      IF count = 3
      THEN [l EXCEPT !.count = 0, !.showAdminLogin = TRUE]
      ELSE [l EXCEPT !.count = count]

\* handleAdminLogin, lines 78-87: the else branch shows the alert.
HandleAdminLogin(l) ==
    IF l.password = "VP@123"
    THEN [l EXCEPT !.isAdminMode = TRUE, !.showAdminLogin = FALSE, !.password = ""]
    ELSE [l EXCEPT !.alerted = TRUE]

\* The last of the taps with gaps q is the third of three taps in which each
\* followed the previous one by less than 1000 ms.
ThirdQuick(q) == Len(q) = 3 /\ q[2] < 1000 /\ q[3] < 1000

LastThree(q) == IF Len(q) <= 3 THEN q ELSE SubSeq(q, Len(q) - 2, Len(q))

InitLogin ==
    /\ InitCore
    /\ login = NoLogin /\ builtin = NoBuiltin /\ mapView = NoMap
    /\ ViewAtRest /\ ClientAtRest /\ ResetAtRest /\ AdminAtRest /\ PanelAtRest

LoginFrame ==
    UNCHANGED <<coreVars, viewVars, clientVars, resetVars, adminVars, panelVars,
                builtin, mapView>>

\* The logo of the header (line 137) is tapped; the dialog's overlay covers
\* it while the dialog is shown, and admin mode replaces the page (line 103).
Tap ==
    /\ ~login.showAdminLogin /\ ~login.isAdminMode
    /\ login.n < MaxTaps
    /\ \E gap \in (IF login.n = 0 THEN {FirstGap} ELSE Gaps) :
         LET since == IF ThirdQuick(login.taps) THEN <<>> ELSE login.taps
         IN login' = [HandleLogoClick(login, gap) EXCEPT
                          !.taps = LastThree(Append(since, gap)),
                          !.n = @ + 1]
    /\ LoginFrame

\* The password input's onChange (line 188).
TypePassword ==
    /\ login.showAdminLogin
    /\ \E pw \in Passwords :
          /\ pw # login.password
          /\ login' = [login EXCEPT !.password = pw, !.alerted = FALSE]
    /\ LoginFrame

\* The dialog's form is submitted (line 187).
SubmitPassword ==
    /\ login.showAdminLogin
    /\ login' = HandleAdminLogin(login)
    /\ LoginFrame

\* The Cancel button of line 190.
CancelLogin ==
    /\ login.showAdminLogin
    /\ login' = [login EXCEPT !.showAdminLogin = FALSE, !.alerted = FALSE]
    /\ LoginFrame

\* onExit of the admin panel (line 104).
ExitAdmin ==
    /\ login.isAdminMode
    /\ login' = [login EXCEPT !.isAdminMode = FALSE]
    /\ LoginFrame

NextLogin ==
    \/ Tap
    \/ TypePassword
    \/ SubmitPassword
    \/ CancelLogin
    \/ ExitAdmin

SpecLogin == InitLogin /\ [][NextLogin]_vars

\* The logo is tapped in this step.
Tapped == login'.n = login.n + 1

\* C39: the login dialog opens exactly on the third of three taps in which
\* each followed the previous one by less than 1000 ms, and by nothing else;
\* the tap counter is 0 after the dialog opens and 1 after a tap that comes
\* 1000 ms or more after the previous one; admin mode is entered only by
\* submitting the correct password in the dialog, and a submit with a wrong
\* password leaves admin mode off.
C39_HiddenAdminEntry ==
    [][ /\ Tapped =>
              /\ login'.showAdminLogin <=> ThirdQuick(login'.taps)
              /\ ThirdQuick(login'.taps) => login'.count = 0
              /\ login'.taps[Len(login'.taps)] >= 1000 => login'.count = 1
        /\ (~Tapped /\ login'.showAdminLogin) => login.showAdminLogin
        /\ (~login.isAdminMode /\ login'.isAdminMode) =>
              login.showAdminLogin /\ login.password = "VP@123"
        /\ (~login.alerted /\ login'.alerted) =>
              /\ login.password # "VP@123"
              /\ ~login'.isAdminMode /\ login'.showAdminLogin ]_vars

\* A tap came 1000 ms after the first one, two quick taps followed and the
\* dialog opened on the fourth tap; the correct password entered admin mode.
C39_Witness ==
    /\ login.isAdminMode /\ ~login.showAdminLogin /\ login.password = ""
    /\ login.n = 4 /\ login.taps = <<1000, 999, 999>> /\ login.count = 0

====
